---- MODULE Spec2Model ----
(***************************************************************************)
(* Model of starlette_exporter/middleware.py: PrometheusMiddleware, the    *)
(* Starlette middleware that counts and times every request in Prometheus  *)
(* metrics labelled (method, path, status_code, app_name).                 *)
(*                                                                         *)
(* dispatch() has one suspension point, the await of call_next (line 47).  *)
(* Everything before it is one step (Start) and everything after it, the   *)
(* finally block included, is one step (CallNextReturns, CallNextRaises,   *)
(* CallNextCancelled): the event loop runs no other coroutine in between.  *)
(*                                                                         *)
(* Counter(...) and Histogram(...) of prometheus_client register the new   *)
(* metric in the process-wide default CollectorRegistry, which raises      *)
(* ValueError("Duplicated timeseries in CollectorRegistry") when a metric  *)
(* of that name is registered already; labels() stringifies every label    *)
(* value with str().                                                       *)
(***************************************************************************)
EXTENDS Integers, Sequences, FiniteSets, TLC

VARIABLES
    ctor_args,   \* the keyword arguments the middleware was constructed with
    config,      \* the middleware's attributes self.group_paths and self.app_name
    routes,      \* the application router's route table (request.scope['router'].routes)
    registry,    \* names registered in prometheus_client's default registry
    counters,    \* <<metric name, label values>> -> value of that counter child
    histograms,  \* <<metric name, label values>> -> number of observations of that histogram child
    pc,          \* request -> "new" | "dispatched" | "done"
    req,         \* request -> the locals of its dispatch() call while it awaits call_next
    reported,    \* request -> number of times its finalization recorded the metrics
    yielded,     \* <<counter name, label values>> -> number of finalizations that derived this tuple
    last         \* what the most recently finished dispatch() call did

vars == <<ctor_args, config, routes, registry, counters, histograms, pc, req, reported, yielded, last>>

----------------------------------------------------------------------------
(* Bounds *)

MaxRequests == 2
MaxRoutes == 2

----------------------------------------------------------------------------
(* Values *)

None == "None"

\* "no exception" and "no response", of the shape of the real ones
NoExc == [type |-> None, msg |-> ""]
NoResponse == [status_code |-> 0, body |-> None]

Requests == 1..MaxRequests
Methods == {"GET"}
RawPaths == {"/items/42"}

\* status.HTTP_500_INTERNAL_SERVER_ERROR
HTTP_500_INTERNAL_SERVER_ERROR == 500

\* Responses call_next can produce (response.status_code and a body to tell them apart).
Responses ==
    { [status_code |-> 200, body |-> "item"],
      [status_code |-> 404, body |-> "Not Found"] }

\* Exceptions call_next can raise.
Failures == { [type |-> "RuntimeError", msg |-> "boom"] }

\* asyncio.CancelledError thrown into the await when the task is cancelled.
CancelledError == [type |-> "CancelledError", msg |-> ""]

\* Endpoints the router can have stored in request.scope['endpoint'].
Endpoints == {"get_item"}

\* Entries of request.scope['router'].routes.  A Route has .endpoint and .path;
\* a Mount has .path and no .endpoint attribute.
RouteEntries ==
    { [kind |-> "Route", path |-> "/items/{id}",  has_endpoint |-> TRUE,  endpoint |-> "get_item"],
      [kind |-> "Route", path |-> "/things/{id}", has_endpoint |-> TRUE,  endpoint |-> "get_item"],
      [kind |-> "Route", path |-> "/other",       has_endpoint |-> TRUE,  endpoint |-> "list_other"],
      [kind |-> "Mount", path |-> "/static",      has_endpoint |-> FALSE, endpoint |-> None] }

RouteTables == UNION { [1..n -> RouteEntries] : n \in 0..MaxRoutes }

\* request.scope as the finally block finds it: the downstream application has
\* or has not stored 'endpoint' and 'router' in it during call_next.
Scopes ==
    { [endpoint |-> None,       has_router |-> TRUE],
      [endpoint |-> "get_item", has_router |-> TRUE],
      [endpoint |-> "get_item", has_router |-> FALSE] }

----------------------------------------------------------------------------
(* prometheus_client, as used by lines 12-25 and 64-69 *)

Digits == <<"0", "1", "2", "3", "4", "5", "6", "7", "8", "9">>

\* str(n) for a non-negative int
RECURSIVE IntToStr(_)
IntToStr(n) ==
    IF n < 10 THEN Digits[n + 1]
    ELSE IntToStr(n \div 10) \o Digits[(n % 10) + 1]

DuplicatedTimeseries == [type |-> "ValueError", msg |-> "Duplicated timeseries in CollectorRegistry"]

\* f"{app_name}_requests_total"
CounterName(app_name) == app_name \o "_requests_total"

\* f"{app_name}_request_duration_seconds"
HistogramName(app_name) == app_name \o "_request_duration_seconds"

\* Counter(name, ...) / Histogram(name, ...): construct the metric and register it.
make_metric(reg, name) ==
    IF name \in reg
    THEN [registry |-> reg, raised |-> DuplicatedTimeseries]
    ELSE [registry |-> reg \cup {name}, raised |-> NoExc]

make_request_time_counter(reg, app_name) == make_metric(reg, CounterName(app_name))

make_request_time_histogram(reg, app_name) == make_metric(reg, HistogramName(app_name))

\* metric.labels(*labels): every value goes through str()
LabelValues(labels) == <<labels[1], labels[2], IntToStr(labels[3]), labels[4]>>

\* .inc()
Inc(c, key) ==
    IF key \in DOMAIN c THEN [c EXCEPT ![key] = @ + 1] ELSE c @@ (key :> 1)

\* .observe(end - begin): one more observation in the child (the observed
\* amount, a difference of two time.time() readings, is not tracked)
Observe(h, key) ==
    IF key \in DOMAIN h THEN [h EXCEPT ![key] = @ + 1] ELSE h @@ (key :> 1)

----------------------------------------------------------------------------
(* PrometheusMiddleware *)

\* the keyword arguments PrometheusMiddleware is constructed with: `given` names
\* the ones the caller passes, the fields of the others are not read
CtorArgs ==
    { [app_name |-> "",    given |-> {},                          group_paths |-> FALSE],
      [app_name |-> "",    given |-> {"group_paths"},             group_paths |-> TRUE],
      [app_name |-> "svc", given |-> {"app_name", "group_paths"}, group_paths |-> TRUE],
      [app_name |-> "svc", given |-> {"app_name"},                group_paths |-> FALSE] }

\* the defaults of __init__'s parameters: group_paths=False, app_name="starlette"
DefaultGroupPaths == FALSE

\* (mutant) the default application name is "app"
DefaultAppName_app == "app"

DefaultAppName == "starlette"

\* __init__: lines 32-35
PrometheusMiddleware_init(args) ==
    [app_name    |-> IF "app_name" \in args.given THEN args.app_name ELSE DefaultAppName,
     group_paths |-> IF "group_paths" \in args.given THEN args.group_paths ELSE DefaultGroupPaths]

\* (mutant) line 56 without the test of self.group_paths
ShouldGroup_IgnoresFlag(cfg, scope) == scope.endpoint # None

\* line 56: self.group_paths and request.scope.get('endpoint', None)
ShouldGroup(cfg, scope) == cfg.group_paths /\ scope.endpoint # None

\* [route for route in ... if route.endpoint == request.scope['endpoint']]
Matching(table, endpoint) ==
    SelectSeq(table, LAMBDA route : route.endpoint = endpoint)

\* (mutant) line 58 taking the last match, [...][-1].path
LookupPath_LastMatch(scope) ==
    IF ~scope.has_router
    THEN [path |-> None, raised |-> "KeyError"]
    ELSE IF \E i \in 1..Len(routes) : ~routes[i].has_endpoint
    THEN [path |-> None, raised |-> "AttributeError"]
    ELSE IF Matching(routes, scope.endpoint) = << >>
    THEN [path |-> None, raised |-> "IndexError"]
    ELSE [path |-> Matching(routes, scope.endpoint)[Len(Matching(routes, scope.endpoint))].path,
          raised |-> None]

\* line 58, with the exception it raises (None when it assigns path)
LookupPath(scope) ==
    IF ~scope.has_router
    THEN [path |-> None, raised |-> "KeyError"]
    ELSE IF \E i \in 1..Len(routes) : ~routes[i].has_endpoint
    THEN [path |-> None, raised |-> "AttributeError"]
    ELSE IF Matching(routes, scope.endpoint) = << >>
    THEN [path |-> None, raised |-> "IndexError"]
    ELSE [path |-> Matching(routes, scope.endpoint)[1].path, raised |-> None]

\* lines 56-60: the path label, the errors logged, and whether the route table was read
ResolvePath(cfg, raw_path, scope) ==
    IF ShouldGroup(cfg, scope)
    THEN LET l == LookupPath(scope)
         IN  IF l.raised = None
             THEN [path |-> l.path, logged |-> << >>, consulted |-> scope.has_router]
             ELSE [path |-> raw_path, logged |-> <<l.raised>>, consulted |-> scope.has_router]
    ELSE [path |-> raw_path, logged |-> << >>, consulted |-> FALSE]

\* (mutant) line 66 with path and method in each other's place
Labels_PathFirst(method, path, status_code, app_name) == <<path, method, status_code, app_name>>

\* line 66
Labels(method, path, status_code, app_name) == <<method, path, status_code, app_name>>

\* lines 53-69: the finally block of dispatch(), for the locals rq of the call
Finalize(cfg, rq, status_code, scope) ==
    LET p      == ResolvePath(cfg, rq.path, scope)
        labels == Labels(rq.method, p.path, status_code, cfg.app_name)
        values == LabelValues(labels)
        c      == make_request_time_counter(registry, cfg.app_name)
        h      == make_request_time_histogram(c.registry, cfg.app_name)
        ckey   == <<CounterName(cfg.app_name), values>>
        hkey   == <<HistogramName(cfg.app_name), values>>
    IN  IF c.raised # NoExc
        THEN [registry |-> c.registry,
              counters |-> counters, histograms |-> histograms,
              path |-> p.path, raised |-> c.raised, logged |-> p.logged, consulted |-> p.consulted,
              values |-> values, incs |-> << >>, obs |-> << >>]
        ELSE IF h.raised # NoExc
        THEN [registry |-> h.registry,
              counters |-> counters, histograms |-> histograms,
              path |-> p.path, raised |-> h.raised, logged |-> p.logged, consulted |-> p.consulted,
              values |-> values, incs |-> << >>, obs |-> << >>]
        ELSE [registry |-> h.registry,
              counters |-> Inc(counters, ckey),
              histograms |-> Observe(histograms, hkey),
              path |-> p.path, raised |-> NoExc, logged |-> p.logged, consulted |-> p.consulted,
              values |-> values, incs |-> <<ckey>>, obs |-> <<hkey>>]

NoReq == [status_code |-> 0, path |-> None, method |-> None]

NoLast == [r |-> 0]

Init ==
    /\ ctor_args \in CtorArgs
    /\ config = PrometheusMiddleware_init(ctor_args)
    /\ routes \in RouteTables
    /\ registry = {}
    /\ counters = << >>
    /\ histograms = << >>
    /\ pc = [r \in Requests |-> "new"]
    /\ req = [r \in Requests |-> NoReq]
    /\ reported = [r \in Requests |-> 0]
    /\ yielded = << >>
    /\ last = NoLast

\* lines 38-47: dispatch() up to the await of call_next(request)
Start(r, method, path) ==
    /\ pc[r] = "new"
    /\ \A q \in Requests : q < r => pc[q] # "new"
    /\ pc' = [pc EXCEPT ![r] = "dispatched"]
    /\ req' = [req EXCEPT ![r] = [status_code |-> HTTP_500_INTERNAL_SERVER_ERROR,
                                  path |-> path, method |-> method]]
    /\ UNCHANGED <<ctor_args, config, routes, registry, counters, histograms, reported, yielded, last>>

\* lines 48-71 once the await of call_next is over with outcome o:
\* status_code is the local after line 48 (or still the default of line 44)
Finish(r, o, status_code, scope) ==
    /\ pc[r] = "dispatched"
    /\ \E f \in {Finalize(config, req[r], status_code, scope)} :
        LET result ==
                IF f.raised # NoExc
                THEN [kind |-> "raised", exc |-> f.raised, response |-> NoResponse]
                ELSE IF o.kind = "response"
                THEN [kind |-> "returned", exc |-> NoExc, response |-> o.response]
                ELSE [kind |-> "raised", exc |-> o.exc, response |-> NoResponse]
        IN  /\ pc' = [pc EXCEPT ![r] = "done"]
            /\ req' = [req EXCEPT ![r] = NoReq]
            /\ registry' = f.registry
            /\ counters' = f.counters
            /\ histograms' = f.histograms
            /\ reported' = [reported EXCEPT ![r] = @ + Len(f.incs)]
            /\ yielded' = Inc(yielded, <<CounterName(config.app_name), f.values>>)
            /\ last' = [status_code |-> status_code, path |-> f.path, scope |-> scope,
                        raw_path |-> req[r].path, logged |-> f.logged,
                        consulted |-> f.consulted, method |-> req[r].method,
                        values |-> f.values, incs |-> f.incs, obs |-> f.obs,
                        r |-> r, result |-> result, outcome |-> o]
            /\ UNCHANGED <<ctor_args, config, routes>>

\* line 47 returns a response: lines 48, 53-69, 71
CallNextReturns(r, response, scope) ==
    Finish(r, [kind |-> "response", exc |-> NoExc, response |-> response],
           response.status_code, scope)

\* line 47 raises an Exception: lines 50-51, 53-69
CallNextRaises(r, exc, scope) ==
    Finish(r, [kind |-> "raised", exc |-> exc, response |-> NoResponse],
           req[r].status_code, scope)

\* the task is cancelled while it awaits line 47: lines 53-69
CallNextCancelled(r, scope) ==
    Finish(r, [kind |-> "cancelled", exc |-> CancelledError, response |-> NoResponse],
           req[r].status_code, scope)

Next ==
    \/ \E r \in Requests, method \in Methods, path \in RawPaths :
           Start(r, method, path)
    \/ \E r \in Requests, response \in Responses, scope \in Scopes :
           CallNextReturns(r, response, scope)
    \/ \E r \in Requests, exc \in Failures, scope \in Scopes :
           CallNextRaises(r, exc, scope)
    \/ \E r \in Requests, scope \in Scopes :
           CallNextCancelled(r, scope)

Spec == Init /\ [][Next]_vars

----------------------------------------------------------------------------
(* Properties *)

\* a dispatch() call has finished; last describes it
Finished == last.r # 0

\* the status code a finished call is to be labelled with: the response's, or 500
ExpectedStatus ==
    IF last.outcome.kind = "response" THEN last.outcome.response.status_code ELSE 500

\* the label value of a status code
StatusLabel(n) == CASE n = 200 -> "200" [] n = 404 -> "404" [] n = 500 -> "500"

\* what leaves dispatch() when the metrics step does not interfere
ExpectedResult ==
    IF last.outcome.kind = "response"
    THEN [kind |-> "returned", exc |-> NoExc, response |-> last.outcome.response]
    ELSE [kind |-> "raised", exc |-> last.outcome.exc, response |-> NoResponse]

\* the finished call recorded exactly one increment and one observation
RecordedOnce == Len(last.incs) = 1 /\ Len(last.obs) = 1

\* every increment and observation the finished call recorded has path label p
ReportedPathIs(p) ==
    /\ \A i \in 1..Len(last.incs) : last.incs[i][2][2] = p
    /\ \A i \in 1..Len(last.obs) : last.obs[i][2][2] = p

\* the entries of the route table whose endpoint is the one the request resolved
MatchingEntries == { i \in 1..Len(routes) : routes[i].endpoint = last.scope.endpoint }

\* grouping applies to the finished call: group_paths is set and an endpoint was resolved
Grouping == Finished /\ config.group_paths /\ last.scope.endpoint # None

\* C1: a request whose call_next returns a response of status S records exactly one
\* increment and one observation labelled status_code = S, and dispatch returns
\* that very response -- also when earlier requests have been handled.
C1_ResponseCountedAndReturned ==
    (Finished /\ last.outcome.kind = "response") =>
        /\ RecordedOnce
        /\ last.incs[1][2][3] = StatusLabel(last.outcome.response.status_code)
        /\ last.obs[1][2][3] = StatusLabel(last.outcome.response.status_code)
        /\ last.result = [kind |-> "returned", exc |-> NoExc,
                          response |-> last.outcome.response]

\* C2: a request whose call_next raises F records exactly one increment and one
\* observation labelled status_code = 500, and the failure leaving dispatch is F.
C2_FailureCountedAndReraised ==
    (Finished /\ last.outcome.kind = "raised") =>
        /\ RecordedOnce
        /\ last.incs[1][2][3] = "500"
        /\ last.obs[1][2][3] = "500"
        /\ last.result.kind = "raised"
        /\ last.result.exc = last.outcome.exc

\* C3: after N requests that all yielded the same label tuple, the counter of that
\* tuple is N and its histogram holds N observations.
C3_AccumulatesN ==
    LET N == Cardinality({ r \in Requests : pc[r] = "done" })
    IN  (N > 0 /\ Cardinality(DOMAIN yielded) = 1) =>
            \A key \in DOMAIN yielded :
                LET hkey == <<HistogramName(config.app_name), key[2]>>
                IN  /\ yielded[key] = N
                    /\ key \in DOMAIN counters
                    /\ counters[key] = N
                    /\ hkey \in DOMAIN histograms
                    /\ histograms[hkey] = N

\* C4: a request that was dispatched and has left dispatch() -- by a response, a
\* failure or a cancellation -- has been reported exactly once, and no request is
\* ever reported twice.
C4_DispatchedIsReportedOnce ==
    \A r \in Requests :
        /\ reported[r] <= 1
        /\ pc[r] = "done" => reported[r] = 1

\* C5: with group_paths set and an endpoint resolved, whenever the route table has
\* an entry with that endpoint, the reported path is the template of such an entry
\* and not the raw path, whatever else the table holds.
C5_TemplateReported ==
    (Grouping /\ last.scope.has_router /\ MatchingEntries # {}) =>
        /\ last.path \in { routes[i].path : i \in MatchingEntries }
        /\ \E i \in MatchingEntries : ReportedPathIs(routes[i].path)

\* C6: with group_paths unset, or with no endpoint resolved, the reported path is
\* the raw request path and the route table is not consulted.
C6_RawPathWhenNotGrouping ==
    (Finished /\ (~config.group_paths \/ last.scope.endpoint = None)) =>
        /\ last.path = last.raw_path
        /\ ReportedPathIs(last.raw_path)
        /\ ~last.consulted

C6_Witness ==
    /\ Finished
    /\ ~config.group_paths
    /\ last.scope = [endpoint |-> "get_item", has_router |-> TRUE]
    /\ MatchingEntries # {}
    /\ RecordedOnce
    /\ last.incs[1][2][2] = "/items/42"

\* the lookup of line 58 fails for the finished call: no 'router' in the scope,
\* an entry without .endpoint, or no entry with the resolved endpoint
PathResolutionFails ==
    /\ Grouping
    /\ \/ ~last.scope.has_router
       \/ \E i \in 1..Len(routes) : ~routes[i].has_endpoint
       \/ MatchingEntries = {}

\* C7: a path-resolution failure is logged, the path falls back to the raw path,
\* the increment and the observation are still recorded, and the response or the
\* downstream failure leaves dispatch() as without the failure.
C7_PathFailureRecovered ==
    PathResolutionFails =>
        /\ last.logged # << >>
        /\ last.path = last.raw_path
        /\ RecordedOnce
        /\ ReportedPathIs(last.raw_path)
        /\ last.result = ExpectedResult

\* more than one entry of the route table has the resolved endpoint
Ambiguous == Grouping /\ last.scope.has_router /\ Cardinality(MatchingEntries) > 1

FirstMatch == CHOOSE i \in MatchingEntries : \A j \in MatchingEntries : i <= j

C9_SameLabelTuple ==
    /\ Finished =>
        LET tuple == <<last.method, last.path, StatusLabel(ExpectedStatus), config.app_name>>
        IN  /\ Len(last.incs) = Len(last.obs)
            /\ \A i \in 1..Len(last.incs) :
                   /\ last.incs[i] = <<config.app_name \o "_requests_total", tuple>>
                   /\ last.obs[i] = <<config.app_name \o "_request_duration_seconds", tuple>>
    /\ \A key \in DOMAIN counters :
           /\ key[1] = config.app_name \o "_requests_total"
           /\ <<config.app_name \o "_request_duration_seconds", key[2]>> \in DOMAIN histograms
           /\ histograms[<<config.app_name \o "_request_duration_seconds", key[2]>>] = counters[key]
    /\ \A key \in DOMAIN histograms :
           <<config.app_name \o "_requests_total", key[2]>> \in DOMAIN counters

C9_Witness ==
    /\ Finished
    /\ last.method = "GET"
    /\ last.raw_path = "/items/42"
    /\ last.incs = << <<"svc_requests_total", <<"GET", "/items/{id}", "200", "svc">> >> >>
    /\ last.obs = << <<"svc_request_duration_seconds", <<"GET", "/items/{id}", "200", "svc">> >> >>

\* C10 as stated: constructed without arguments the middleware has group_paths
\* false and app_name "app", and reports under "app".
C10_DefaultIsApp ==
    (ctor_args.given = {} /\ Finished) =>
        /\ config = [app_name |-> "app", group_paths |-> FALSE]
        /\ \A i \in 1..Len(last.incs) :
               last.incs[i][1] = "app_requests_total" /\ last.incs[i][2][4] = "app"

\* C10 as the code has it: constructed without arguments the middleware has
\* group_paths false and app_name "starlette", and reports with app_name label
\* "starlette" under metrics prefixed "starlette_"; whatever the arguments, the
\* configuration stays what construction made it.
C10_DefaultIsStarlette ==
    /\ ctor_args.given = {} =>
           /\ config = [app_name |-> "starlette", group_paths |-> FALSE]
           /\ Finished =>
                  /\ \A i \in 1..Len(last.incs) :
                         /\ last.incs[i][1] = "starlette_requests_total"
                         /\ last.incs[i][2][4] = "starlette"
                  /\ \A i \in 1..Len(last.obs) :
                         /\ last.obs[i][1] = "starlette_request_duration_seconds"
                         /\ last.obs[i][2][4] = "starlette"
    /\ config.group_paths =
           (IF "group_paths" \in ctor_args.given THEN ctor_args.group_paths ELSE FALSE)
    /\ config.app_name =
           (IF "app_name" \in ctor_args.given THEN ctor_args.app_name ELSE "starlette")

C10_Witness ==
    /\ ctor_args.given = {}
    /\ Finished
    /\ config = [app_name |-> "starlette", group_paths |-> FALSE]
    /\ last.incs = << <<"starlette_requests_total", <<"GET", "/items/42", "200", "starlette">> >> >>

====
